---------------------------- MODULE Spec2Model ----------------------------
(***************************************************************************)
(* Swarm pipeline engine of oh-my-pi (packages/omp-extension-swarm):       *)
(* dependency graph, cycle detection, wave scheduling (swarm/dag.ts), the  *)
(* filesystem state tracker (swarm/state.ts), the agent executor wrapper   *)
(* (swarm/executor.ts) and the pipeline controller (swarm/pipeline.ts),    *)
(* driven by the run-pipeline.ts script.                                   *)
(***************************************************************************)
EXTENDS Integers, Sequences, FiniteSets, TLC

(***************************************************************************)
(* Bounds of the model.                                                    *)
(***************************************************************************)
\* number of agents of a definition / keys of a graph
NumAgents == 3
\* total number of waits_for / reports_to entries of a definition
MaxDecl == 2
\* number of edges of a directly constructed graph
MaxEdges == 3
\* largest target_count of a run
MaxIter == 2
\* total number of waits_for / reports_to entries of a definition that is run
MaxRunDecl == 1

\* number of tracker calls made by callers other than the run
MaxCalls == 3

(***************************************************************************)
(* Agent names are strings; a string is modelled as the sequence of its    *)
(* UTF-16 code units (1 = "a", 2 = "b", 3 = "c").                            *)
(***************************************************************************)
\* declaration order "b", "a", "ab", "ba", "aa": not the sorted order
NamePool == << <<2>>, <<1>>, <<1, 2>>, <<2, 1>>, <<1, 1>> >>

\* a name that is no agent of any definition ("c")
UnknownName == <<3>>

\* null or undefined in place of an object or an array
Null == [null |-> TRUE]

\* a variable of the driver that is not assigned yet
Unset == [unset |-> TRUE]

Range(s) == {s[i] : i \in 1..Len(s)}

BaseOrder == SubSeq(NamePool, 1, NumAgents)

AgentNames == Range(BaseOrder)

\* JavaScript's default sort order of strings: by code units, a proper
\* prefix first
StrLess(s, t) ==
    \E i \in 1..(Len(s) + 1) :
        /\ i <= Len(t)
        /\ \A j \in 1..(i - 1) : s[j] = t[j]
        /\ (i = Len(s) + 1 \/ s[i] < t[i])

\* insert x into the ascending sequence s
SortInsert(s, x) ==
    LET k == Cardinality({i \in 1..Len(s) : StrLess(s[i], x)})
    IN  SubSeq(s, 1, k) \o <<x>> \o SubSeq(s, k + 1, Len(s))

\* a wave that is left in the order in which its agents were found
ArrayUnsorted(s) == s

RECURSIVE ArraySort(_)
\* Array.prototype.sort() without comparator, on an array of strings
ArraySort(s) ==
    IF s = << >> THEN << >>
    ELSE SortInsert(ArraySort(Tail(s)), Head(s))

Modes == {"pipeline", "sequential", "parallel"}

(***************************************************************************)
(* swarm/dag.ts                                                            *)
(*                                                                         *)
(* A Map<string, Set<string>> is a record: keys, the keys in insertion     *)
(* order, and get, the value of each key.                                  *)
(***************************************************************************)
\* a hasExplicitDeps that returns from inside the loop, after the first set
hasExplicitDepsFirstOnly(deps) == deps.get[deps.keys[1]] # {}

\* hasExplicitDeps(deps)
hasExplicitDeps(deps) == \E n \in Range(deps.keys) : deps.get[n] # {}

\* a waits_for loop without the deps.has(dep) test
WaitsForEdgesUnfiltered(def, get) ==
    [n \in DOMAIN get |-> get[n] \cup def.waitsFor[n]]

\* the waits_for loop of buildDependencyGraph
WaitsForEdges(def, get) ==
    [n \in DOMAIN get |-> get[n] \cup (def.waitsFor[n] \cap DOMAIN get)]

\* a reports_to loop that makes the reporter wait for its target
ReportsToEdgesForward(def, get) ==
    [n \in DOMAIN get |-> get[n] \cup (def.reportsTo[n] \cap DOMAIN get)]

\* the reports_to loop of buildDependencyGraph
ReportsToEdges(def, get) ==
    [t \in DOMAIN get |->
        get[t] \cup {n \in DOMAIN get : t \in def.reportsTo[n]}]

\* a chain in which each agent waits for the agent declared after it
ChainEdgesReversed(def, get) ==
    [n \in DOMAIN get |->
        get[n] \cup {def.agentOrder[i + 1] :
                        i \in {j \in 1..(Len(def.agentOrder) - 1) : def.agentOrder[j] = n}}]

\* the declaration-order chain of buildDependencyGraph
ChainEdges(def, get) ==
    [n \in DOMAIN get |->
        get[n] \cup {def.agentOrder[i - 1] :
                        i \in {j \in 2..Len(def.agentOrder) : def.agentOrder[j] = n}}]

\* buildDependencyGraph(def)
buildDependencyGraph(def) ==
    LET empty == [n \in Range(def.agentOrder) |-> {}]
        explicit == ReportsToEdges(def, WaitsForEdges(def, empty))
        deps == [keys |-> def.agentOrder, get |-> explicit]
    IN  IF def.mode \in {"pipeline", "sequential"} /\ ~hasExplicitDeps(deps)
        THEN [deps EXCEPT !.get = ChainEdges(def, explicit)]
        ELSE deps

RECURSIVE ForwardOf(_, _, _)
\* forward.get(dep) of detectCycles: the dependents of dep, in the order
\* the loop over the graph pushes them
ForwardOf(deps, dep, i) ==
    IF i > Len(deps.keys) THEN << >>
    ELSE (IF dep \in deps.get[deps.keys[i]] THEN <<deps.keys[i]>> ELSE << >>)
         \o ForwardOf(deps, dep, i + 1)

RECURSIVE KahnReleaseNoPush(_, _, _)
\* an inner loop that decrements the in-degrees but queues nothing
KahnReleaseNoPush(dependents, inDegree, queue) ==
    IF dependents = << >> THEN [inDegree |-> inDegree, queue |-> queue]
    ELSE LET d == Head(dependents)
         IN  KahnReleaseNoPush(Tail(dependents),
                               [inDegree EXCEPT ![d] = inDegree[d] - 1], queue)

RECURSIVE KahnRelease(_, _, _)
\* the inner loop of detectCycles over the dependents of a removed node:
\* decrements their in-degree and queues those that reach zero
KahnRelease(dependents, inDegree, queue) ==
    IF dependents = << >> THEN [inDegree |-> inDegree, queue |-> queue]
    ELSE LET d == Head(dependents)
             newDegree == inDegree[d] - 1
         IN  KahnRelease(Tail(dependents),
                         [inDegree EXCEPT ![d] = newDegree],
                         IF newDegree = 0 THEN Append(queue, d) ELSE queue)

RECURSIVE KahnLoop(_, _, _, _)
\* the while loop of detectCycles; yields the array sorted
KahnLoop(deps, inDegree, queue, sorted) ==
    IF queue = << >> THEN sorted
    ELSE LET node == Head(queue)
             r == KahnRelease(ForwardOf(deps, node, 1), inDegree, Tail(queue))
         IN  KahnLoop(deps, r.inDegree, r.queue, Append(sorted, node))

\* a detectCycles that returns the keys whose in-degree is not zero at the start
detectCyclesNonRoots(deps) ==
    LET inDegree == [n \in Range(deps.keys) |-> Cardinality(deps.get[n])]
        queue == SelectSeq(deps.keys, LAMBDA n : inDegree[n] = 0)
        sorted == KahnLoop(deps, inDegree, queue, << >>)
    IN  IF Len(sorted) < Len(deps.keys)
        THEN [names |-> SelectSeq(deps.keys, LAMBDA k : k \notin Range(queue))]
        ELSE Null

\* detectCycles(deps): Null, or the array of the keys that the topological
\* sort left out (names)
detectCycles(deps) ==
    LET inDegree == [n \in Range(deps.keys) |-> Cardinality(deps.get[n])]
        queue == SelectSeq(deps.keys, LAMBDA n : inDegree[n] = 0)
        sorted == KahnLoop(deps, inDegree, queue, << >>)
    IN  IF Len(sorted) < Len(deps.keys)
        THEN [names |-> SelectSeq(deps.keys, LAMBDA k : k \notin Range(sorted))]
        ELSE Null

\* a pass that takes a node as ready when one of its dependencies is completed
ReadyWaveSome(deps, remaining, completed) ==
    SelectSeq(remaining, LAMBDA node :
        deps.get[node] = {} \/ deps.get[node] \cap completed # {})

\* a pass that takes only the first ready node
ReadyWaveFirstOnly(deps, remaining, completed) ==
    LET ready == SelectSeq(remaining, LAMBDA node : deps.get[node] \subseteq completed)
    IN  SubSeq(ready, 1, IF ready = << >> THEN 0 ELSE 1)

\* one pass of buildExecutionWaves over the remaining nodes
ReadyWave(deps, remaining, completed) ==
    SelectSeq(remaining, LAMBDA node : deps.get[node] \subseteq completed)

RECURSIVE WavesLoopPartial(_, _, _, _)
\* a loop that, when no agent is ready, returns the waves built so far
WavesLoopPartial(deps, remaining, completed, waves) ==
    IF remaining = << >> THEN [threw |-> FALSE, waves |-> waves]
    ELSE LET wave == ReadyWave(deps, remaining, completed)
         IN  IF wave = << >> THEN [threw |-> FALSE, waves |-> waves]
             ELSE WavesLoopPartial(deps,
                                   SelectSeq(remaining, LAMBDA n : n \notin Range(wave)),
                                   completed \cup Range(wave),
                                   Append(waves, ArraySort(wave)))

RECURSIVE WavesLoop(_, _, _, _)
\* the while loop of buildExecutionWaves; threw is TRUE when the loop ended
\* with the Deadlock error
WavesLoop(deps, remaining, completed, waves) ==
    IF remaining = << >> THEN [threw |-> FALSE, waves |-> waves]
    ELSE LET wave == ReadyWave(deps, remaining, completed)
         IN  IF wave = << >> THEN [threw |-> TRUE, waves |-> waves]
             ELSE WavesLoop(deps,
                            SelectSeq(remaining, LAMBDA n : n \notin Range(wave)),
                            completed \cup Range(wave),
                            Append(waves, ArraySort(wave)))

\* buildExecutionWaves(deps)
buildExecutionWaves(deps) == WavesLoop(deps, deps.keys, {}, << >>)

(***************************************************************************)
(* Inputs: swarm definitions (the parsed and validated YAML) and, for the   *)
(* graph functions called on their own, directly constructed graphs.       *)
(***************************************************************************)
RECURSIVE SubsetsUpTo(_, _)
\* the subsets of S with at most k elements
SubsetsUpTo(S, k) ==
    IF k = 0 THEN {{}}
    ELSE LET smaller == SubsetsUpTo(S, k - 1)
         IN  smaller \cup {T \cup {x} : T \in smaller, x \in S}

\* the rotations of the declaration order
Rotations(s) ==
    {SubSeq(s, i, Len(s)) \o SubSeq(s, 1, i - 1) : i \in 1..Len(s)}

\* the orders in which the keys of a graph can have been inserted
OrdersOf(s) ==
    {p \in [1..Len(s) -> Range(s)] : \A i, j \in 1..Len(s) : p[i] = p[j] => i = j}

\* a waits_for or reports_to entry: <<kind, agent, name listed>>
DeclSlots == {"waits_for", "reports_to"} \X AgentNames \X (AgentNames \cup {UnknownName})

DefOf(order, decls, mode, targetCount) ==
    [agentOrder |-> order,
     waitsFor |-> [n \in Range(order) |-> {d[3] : d \in {e \in decls : e[1] = "waits_for" /\ e[2] = n}}],
     reportsTo |-> [n \in Range(order) |-> {d[3] : d \in {e \in decls : e[1] = "reports_to" /\ e[2] = n}}],
     mode |-> mode,
     targetCount |-> targetCount]

\* definitions given to buildDependencyGraph
DagDefs ==
    {DefOf(order, decls, mode, 1) :
        order \in Rotations(BaseOrder), decls \in SubsetsUpTo(DeclSlots, MaxDecl), mode \in Modes}

\* an edge of a directly constructed graph: <<node, dependency>>
EdgeSlots == AgentNames \X (AgentNames \cup {UnknownName})

\* graphs given directly to detectCycles and buildExecutionWaves
GivenGraphs ==
    {[keys |-> order, get |-> [n \in AgentNames |-> {e[2] : e \in {f \in edges : f[1] = n}}]] :
        order \in OrdersOf(BaseOrder), edges \in SubsetsUpTo(EdgeSlots, MaxEdges)}

\* definitions given to the run-pipeline.ts script: declared in BaseOrder,
\* in mode pipeline or parallel, with at most MaxRunDecl waits_for or
\* reports_to entries
RunDefs ==
    {DefOf(BaseOrder, decls, mode, n) :
        decls \in SubsetsUpTo(DeclSlots, MaxRunDecl), mode \in {"pipeline", "parallel"}, n \in 1..MaxIter}

(***************************************************************************)
(* swarm/state.ts: StateTracker.  A JavaScript object is a function from   *)
(* its property names; a property that was never set is not in its        *)
(* domain, a property set to undefined has the value Undefined.            *)
(***************************************************************************)
Undefined == "undefined"

SwarmName == "swarm"

EmptyObject == [f \in {} |-> Undefined]

\* Object.assign(target, update)
ObjectAssign(target, update) ==
    [f \in DOMAIN target \cup DOMAIN update |->
        IF f \in DOMAIN update THEN update[f] ELSE target[f]]

\* the only property an update sets from a value that can be undefined is
\* error (result.error of the executor's result)
IsUndefined(obj, f) == f = "error" /\ obj[f] = Undefined

\* what JSON.stringify keeps of an object: the properties that are not undefined
DropUndefined(obj) == [f \in {g \in DOMAIN obj : ~IsUndefined(obj, g)} |-> obj[f]]

\* JSON.stringify(this.#state, null, 2): the document written to pipeline.json,
\* as the value JSON.parse reads back from it
JsonStringify(st) ==
    LET top == DropUndefined(st)
    IN  [top EXCEPT !.agents = [n \in DOMAIN top.agents |-> DropUndefined(top.agents[n])]]

\* new StateTracker(workspaceDir, name)
NewStateTracker(name, now) ==
    [name |-> name, status |-> "idle", mode |-> "sequential", iteration |-> 0,
     targetCount |-> 1, agents |-> EmptyObject, startedAt |-> now]

RECURSIVE SeedAgents(_, _)
\* the loop of StateTracker.init over agentNames
SeedAgents(agents, agentNames) ==
    IF agentNames = << >> THEN agents
    ELSE LET name == Head(agentNames)
         IN  SeedAgents(ObjectAssign(agents,
                            [n \in {name} |-> [name |-> name, status |-> "pending",
                                               iteration |-> 0, wave |-> 0]]),
                        Tail(agentNames))

\* an init that leaves the status as the constructor set it
TrackerInitKeepsStatus(st, agentNames, targetCount, mode, now) ==
    [st EXCEPT !.targetCount = targetCount, !.mode = mode,
               !.startedAt = now, !.agents = SeedAgents(st.agents, agentNames)]

\* an init that leaves the mode as the constructor set it
TrackerInitKeepsMode(st, agentNames, targetCount, mode, now) ==
    [st EXCEPT !.targetCount = targetCount, !.status = "running",
               !.startedAt = now, !.agents = SeedAgents(st.agents, agentNames)]

\* the assignments of StateTracker.init
TrackerInit(st, agentNames, targetCount, mode, now) ==
    [st EXCEPT !.targetCount = targetCount, !.mode = mode, !.status = "running",
               !.startedAt = now, !.agents = SeedAgents(st.agents, agentNames)]

\* whether StateTracker.updateAgent finds the agent
KnowsAgent(st, name) == name \in DOMAIN st.agents

\* an updateAgent that makes an entry for a name it does not find
TrackerUpdateAgentCreates(st, name, update) ==
    IF ~KnowsAgent(st, name)
    THEN [st EXCEPT !.agents = ObjectAssign(st.agents, [n \in {name} |-> update])]
    ELSE [st EXCEPT !.agents[name] = ObjectAssign(st.agents[name], update)]

\* an updateAgent that puts the update in the place of the agent's entry
TrackerUpdateAgentReplaces(st, name, update) ==
    IF ~KnowsAgent(st, name) THEN st
    ELSE [st EXCEPT !.agents[name] = update]

\* the assignment of StateTracker.updateAgent
TrackerUpdateAgent(st, name, update) ==
    IF ~KnowsAgent(st, name) THEN st
    ELSE [st EXCEPT !.agents[name] = ObjectAssign(st.agents[name], update)]

\* an updatePipeline whose Object.assign has its arguments exchanged
TrackerUpdatePipelineExchanged(st, update) == ObjectAssign(update, st)

\* the assignment of StateTracker.updatePipeline
TrackerUpdatePipeline(st, update) == ObjectAssign(st, update)

\* pipeline.json while Bun.write has opened it for writing and has not
\* written the document yet: no text that JSON.parse accepts
TruncatedFile == [truncated |-> TRUE]

\* a load() that reads another file than #persist writes
TrackerLoadOtherFile(st, file) == [returned |-> Null, state |-> st]

\* a load() that assigns the state before it knows that the file parses
TrackerLoadClearsState(st, file) ==
    IF file = Null \/ file = TruncatedFile
    THEN [returned |-> Null, state |-> Null]
    ELSE [returned |-> file, state |-> file]

\* StateTracker.load() of a tracker whose state is st: what it returns and
\* the tracker's state afterwards.  Reading a missing file and parsing an
\* incomplete one throw, and the catch returns null; else the value
\* JSON.parse reads becomes the state and is returned
TrackerLoad(st, file) ==
    IF file = Null \/ file = TruncatedFile
    THEN [returned |-> Null, state |-> st]
    ELSE [returned |-> file, state |-> file]

(***************************************************************************)
(* swarm/executor.ts: executeSwarmAgent.                                   *)
(***************************************************************************)
\* what runSubprocess can do: resolve with exit code 0, resolve with a
\* non-zero exit code and an error text, or throw
Outcomes == {"ok", "fail", "throw"}

ExitError == "exit 1"
ThrownError == "spawn failed"

\* the update of executeSwarmAgent before runSubprocess
RunningUpdate(iteration, now) ==
    [status |-> "running", iteration |-> iteration, startedAt |-> now]

\* a settle update that does not look at the exit code
SettleUpdateExitIgnored(outcome, now) ==
    IF outcome = "throw"
    THEN [status |-> "failed", completedAt |-> now, error |-> ThrownError]
    ELSE [status |-> "completed",
          completedAt |-> now,
          error |-> IF outcome = "ok" THEN Undefined ELSE ExitError]

\* a catch block that records the error and the time but not the status
SettleUpdateThrowKeepsStatus(outcome, now) ==
    IF outcome = "throw"
    THEN [completedAt |-> now, error |-> ThrownError]
    ELSE [status |-> IF outcome = "ok" THEN "completed" ELSE "failed",
          completedAt |-> now,
          error |-> IF outcome = "ok" THEN Undefined ELSE ExitError]

\* a settle update that has an error property only when an error is reported
SettleUpdateOmitsError(outcome, now) ==
    IF outcome = "throw"
    THEN [status |-> "failed", completedAt |-> now, error |-> ThrownError]
    ELSE IF outcome = "ok"
    THEN [status |-> "completed", completedAt |-> now]
    ELSE [status |-> "failed", completedAt |-> now, error |-> ExitError]

\* the update of executeSwarmAgent after runSubprocess returned or threw
SettleUpdate(outcome, now) ==
    IF outcome = "throw"
    THEN [status |-> "failed", completedAt |-> now, error |-> ThrownError]
    ELSE [status |-> IF outcome = "ok" THEN "completed" ELSE "failed",
          completedAt |-> now,
          error |-> IF outcome = "ok" THEN Undefined ELSE ExitError]

Settled == {"resolvedOk", "resolvedFail", "rejected"}

(***************************************************************************)
(* swarm/pipeline.ts: PipelineController.                                  *)
(***************************************************************************)
RECURSIVE MarkWave(_, _, _)
\* before the launch of a wave each of its agents gets the wave's index
MarkWave(st, wave, waveIdx) ==
    IF wave = << >> THEN st
    ELSE MarkWave(TrackerUpdateAgent(st, Head(wave), [wave |-> waveIdx]), Tail(wave), waveIdx)

RECURSIVE LaunchAll(_, _, _, _, _)
\* the launch of a wave: each agent, in the wave's order, runs
\* executeSwarmAgent up to its first write of pipeline.json.  Yields the
\* tracker state and the documents whose writes are in flight.
LaunchAll(st, writes, wave, iteration, now) ==
    IF wave = << >> THEN [state |-> st, writes |-> writes]
    ELSE LET name == Head(wave)
             st1 == TrackerUpdateAgent(st, name, RunningUpdate(iteration, now))
         IN  LaunchAll(st1, [writes EXCEPT ![name] = JsonStringify(st1)],
                       Tail(wave), iteration, now)

\* the entry of the run's error list for a failed agent
ErrorEntry(name, iteration, settled) ==
    <<name, iteration, IF settled = "rejected" THEN ThrownError ELSE ExitError>>

\* an error list that notes the calls that threw, not the non-zero exit codes
WaveErrorsRejectedOnly(wave, iteration, ex) ==
    LET failed == SelectSeq(wave, LAMBDA n : ex[n] = "rejected")
    IN  [i \in 1..Len(failed) |-> ErrorEntry(failed[i], iteration, ex[failed[i]])]

\* an error list that notes the non-zero exit codes, not the calls that threw
WaveErrorsExitCodesOnly(wave, iteration, ex) ==
    LET failed == SelectSeq(wave, LAMBDA n : ex[n] = "resolvedFail")
    IN  [i \in 1..Len(failed) |-> ErrorEntry(failed[i], iteration, ex[failed[i]])]

\* an error list in which the first failure of a wave hides the others
WaveErrorsFirstOnly(wave, iteration, ex) ==
    LET failed == SelectSeq(wave, LAMBDA n : ex[n] # "resolvedOk")
    IN  [i \in 1..(IF failed = << >> THEN 0 ELSE 1) |-> ErrorEntry(failed[i], iteration, ex[failed[i]])]

\* the entries a settled wave adds to the error list, in the wave's order
WaveErrors(wave, iteration, ex) ==
    LET failed == SelectSeq(wave, LAMBDA n : ex[n] # "resolvedOk")
    IN  [i \in 1..Len(failed) |-> ErrorEntry(failed[i], iteration, ex[failed[i]])]

\* a final status in which a failure hides the cancellation
FinalStatusFailureFirst(isAborted, anyFailed) ==
    IF anyFailed THEN "failed" ELSE IF isAborted THEN "aborted" ELSE "completed"

\* the status the controller ends the run with
FinalStatus(isAborted, anyFailed) ==
    IF isAborted THEN "aborted" ELSE IF anyFailed THEN "failed" ELSE "completed"

VARIABLES
    def,        \* the swarm definition, or Null when a graph is given directly
    deps,       \* the dependency graph, or Null before it is built
    cycles,     \* the result of detectCycles, Unset before the call
    waves,      \* the result of buildExecutionWaves, Unset before the call
    pc,         \* the position of the driver and of the controller's loop
    state,      \* StateTracker.#state, or Null before the tracker is constructed
    disk,       \* the content of state/pipeline.json, or Null while there is none
    pending,    \* per agent: the document its awaited write is writing, or Null
    exec,       \* per agent: where its executeSwarmAgent call of this iteration is
    ctl,        \* the controller's locals: iteration, waveIdx, failed, iterations, errors
    aborted,    \* signal.aborted
    result,     \* what controller.run returned, or Null
    clock,      \* Date.now()
    history,    \* the launches and settlements so far: <<event, iteration, agent>>
    calls,      \* the tracker calls of other callers that have not returned yet
    ncalls,     \* the number of tracker calls other callers have made
    overlapped, \* whether one of those calls began while another had not returned
    loaded      \* what load() of a fresh tracker returned and that tracker's
                \* state after the call, Unset before the call

vars == <<def, deps, cycles, waves, pc, state, disk, pending, exec, ctl, aborted,
          result, clock, history, calls, ncalls, overlapped, loaded>>

dagVars == <<def, deps, cycles, waves>>
callVars == <<calls, ncalls, overlapped, loaded>>
runVars == <<state, disk, pending, exec, ctl, aborted, result, clock, history, callVars>>

\* const deps = buildDependencyGraph(def)
BuildGraph ==
    /\ pc = "start"
    /\ deps' = buildDependencyGraph(def)
    /\ pc' = "built"
    /\ UNCHANGED <<def, cycles, waves>>
    /\ UNCHANGED runVars

\* a detectCycles that runs the topological sort on the graph itself and
\* deletes from the dependency sets the nodes it has sorted
DetectCyclesConsuming ==
    /\ pc = "built"
    /\ cycles' = detectCycles(deps)
    /\ LET sorted == IF cycles' = Null THEN Range(deps.keys)
                     ELSE Range(deps.keys) \ Range(cycles'.names)
       IN  deps' = [deps EXCEPT !.get = [n \in DOMAIN deps.get |-> deps.get[n] \ sorted]]
    /\ pc' = "checked"
    /\ UNCHANGED <<def, waves>>
    /\ UNCHANGED runVars

\* const cycles = detectCycles(deps)
DetectCycles ==
    /\ pc = "built"
    /\ cycles' = detectCycles(deps)
    /\ pc' = "checked"
    /\ UNCHANGED <<def, deps, waves>>
    /\ UNCHANGED runVars

\* buildExecutionWaves(deps) called on its own, whatever detectCycles said
CallBuildWaves ==
    /\ pc = "checked"
    /\ waves' = buildExecutionWaves(deps)
    /\ pc' = "waved"
    /\ UNCHANGED <<def, deps, cycles>>
    /\ UNCHANGED runVars

\* if (cycles) process.exit(1)
CycleExit ==
    /\ pc = "checked"
    /\ cycles # Null
    /\ pc' = "exited"
    /\ UNCHANGED dagVars
    /\ UNCHANGED callVars
    /\ UNCHANGED runVars

\* a script that builds the waves whatever detectCycles returned
BuildWavesUngated ==
    /\ pc = "checked"
    /\ waves' = buildExecutionWaves(deps)
    /\ pc' = IF waves'.threw THEN "crashed" ELSE "waved"
    /\ UNCHANGED <<def, deps, cycles>>
    /\ UNCHANGED runVars

\* const waves = buildExecutionWaves(deps), which may throw
BuildWaves ==
    /\ pc = "checked"
    /\ cycles = Null
    /\ waves' = buildExecutionWaves(deps)
    /\ pc' = IF waves'.threw THEN "crashed" ELSE "waved"
    /\ UNCHANGED <<def, deps, cycles>>
    /\ UNCHANGED runVars

\* const stateTracker = new StateTracker(workspace, def.name)
NewTracker ==
    /\ pc = "waved"
    /\ state' = NewStateTracker(SwarmName, clock)
    /\ pc' = "constructed"
    /\ UNCHANGED dagVars
    /\ UNCHANGED callVars
    /\ UNCHANGED <<disk, pending, exec, ctl, aborted, result, clock, history>>

\* await stateTracker.init([...def.agents.keys()], def.targetCount, def.mode)
InitTracker ==
    /\ pc = "constructed"
    /\ state' = TrackerInit(state, def.agentOrder, def.targetCount, def.mode, clock)
    /\ disk' = JsonStringify(state')
    /\ pc' = "inited"
    /\ UNCHANGED dagVars
    /\ UNCHANGED callVars
    /\ UNCHANGED <<pending, exec, ctl, aborted, result, clock, history>>

\* controller.run(options) up to its loop
RunStart ==
    /\ pc = "inited"
    /\ pc' = "iterStart"
    /\ UNCHANGED dagVars
    /\ UNCHANGED callVars
    /\ UNCHANGED runVars

\* the head of the loop over the iterations
IterStart ==
    /\ pc = "iterStart"
    /\ IF ctl.iteration < def.targetCount /\ ~aborted
       THEN /\ ctl' = [ctl EXCEPT !.iteration = @ + 1, !.waveIdx = 0]
            /\ state' = TrackerUpdatePipeline(state, [iteration |-> ctl'.iteration])
            /\ disk' = JsonStringify(state')
            /\ exec' = [n \in DOMAIN exec |-> "idle"]
            /\ pc' = "waveStart"
       ELSE /\ pc' = "finalise"
            /\ UNCHANGED <<ctl, state, disk, exec>>
    /\ UNCHANGED dagVars
    /\ UNCHANGED callVars
    /\ UNCHANGED <<pending, aborted, result, clock, history>>

\* a loop over the waves that does not look at the abort signal
WaveStartUnchecked ==
    /\ pc = "waveStart"
    /\ LET wave == waves.waves[ctl.waveIdx + 1]
           marked == MarkWave(state, wave, ctl.waveIdx)
           launch == LaunchAll(marked, pending, wave, ctl.iteration, clock + 1)
       IN  /\ clock' = clock + 1
           /\ state' = launch.state
           /\ disk' = JsonStringify(marked)
           /\ pending' = launch.writes
           /\ exec' = [n \in DOMAIN exec |-> IF n \in Range(wave) THEN "starting" ELSE exec[n]]
           /\ history' = history \cup {<<"launch", ctl.iteration, n>> : n \in Range(wave)}
           /\ pc' = "barrier"
    /\ UNCHANGED dagVars
    /\ UNCHANGED callVars
    /\ UNCHANGED <<ctl, aborted, result>>

\* the head of the loop over the waves: the abort check, then the launch of
\* every agent of the wave
WaveStart ==
    /\ pc = "waveStart"
    /\ IF aborted
       THEN /\ pc' = "finalise"
            /\ UNCHANGED <<state, disk, pending, exec, clock, history>>
       ELSE LET wave == waves.waves[ctl.waveIdx + 1]
                marked == MarkWave(state, wave, ctl.waveIdx)
                launch == LaunchAll(marked, pending, wave, ctl.iteration, clock + 1)
            IN  /\ clock' = clock + 1
                /\ state' = launch.state
                /\ disk' = JsonStringify(marked)
                /\ pending' = launch.writes
                /\ exec' = [n \in DOMAIN exec |-> IF n \in Range(wave) THEN "starting" ELSE exec[n]]
                /\ history' = history \cup {<<"launch", ctl.iteration, n>> : n \in Range(wave)}
                /\ pc' = "barrier"
    /\ UNCHANGED dagVars
    /\ UNCHANGED callVars
    /\ UNCHANGED <<ctl, aborted, result>>

\* executeSwarmAgent: the write of the running status lands, the "Starting"
\* line is logged and runSubprocess is called
ExecInvoke(a) ==
    /\ exec[a] = "starting"
    /\ disk' = pending[a]
    /\ pending' = [pending EXCEPT ![a] = Null]
    /\ exec' = [exec EXCEPT ![a] = "external"]
    /\ UNCHANGED dagVars
    /\ UNCHANGED callVars
    /\ UNCHANGED <<pc, state, ctl, aborted, result, clock, history>>

\* executeSwarmAgent: runSubprocess returns or throws, the agent's status is
\* updated and its write begins
ExecSettle(a, outcome) ==
    /\ exec[a] = "external"
    /\ state' = TrackerUpdateAgent(state, a, SettleUpdate(outcome, clock))
    /\ pending' = [pending EXCEPT ![a] = JsonStringify(state')]
    /\ exec' = [exec EXCEPT ![a] = CASE outcome = "ok" -> "endingOk"
                                      [] outcome = "fail" -> "endingFail"
                                      [] OTHER -> "endingThrow"]
    /\ history' = history \cup {<<IF outcome = "ok" THEN "ok" ELSE "fail", ctl.iteration, a>>}
    /\ UNCHANGED dagVars
    /\ UNCHANGED callVars
    /\ UNCHANGED <<pc, disk, ctl, aborted, result, clock>>

\* an executeSwarmAgent whose catch block does not rethrow
ExecReturnSwallows(a) ==
    /\ exec[a] \in {"endingOk", "endingFail", "endingThrow"}
    /\ disk' = pending[a]
    /\ pending' = [pending EXCEPT ![a] = Null]
    /\ exec' = [exec EXCEPT ![a] = CASE exec[a] = "endingFail" -> "resolvedFail"
                                      [] OTHER -> "resolvedOk"]
    /\ UNCHANGED dagVars
    /\ UNCHANGED callVars
    /\ UNCHANGED <<pc, state, ctl, aborted, result, clock, history>>

\* executeSwarmAgent: the write of the final status lands, the line is
\* logged, and the call returns the result or rethrows
ExecReturn(a) ==
    /\ exec[a] \in {"endingOk", "endingFail", "endingThrow"}
    /\ disk' = pending[a]
    /\ pending' = [pending EXCEPT ![a] = Null]
    /\ exec' = [exec EXCEPT ![a] = CASE exec[a] = "endingOk" -> "resolvedOk"
                                      [] exec[a] = "endingFail" -> "resolvedFail"
                                      [] OTHER -> "rejected"]
    /\ UNCHANGED dagVars
    /\ UNCHANGED callVars
    /\ UNCHANGED <<pc, state, ctl, aborted, result, clock, history>>

\* a barrier that goes on as soon as one call of the wave has settled
BarrierFirstSettled ==
    /\ pc = "barrier"
    /\ LET wave == waves.waves[ctl.waveIdx + 1]
           done == SelectSeq(wave, LAMBDA n : exec[n] \in Settled)
           errs == WaveErrors(done, ctl.iteration, exec)
       IN  /\ done # << >>
           /\ IF errs # << >>
              THEN /\ ctl' = [ctl EXCEPT !.failed = TRUE, !.errors = @ \o errs]
                   /\ pc' = "finalise"
              ELSE IF ctl.waveIdx + 1 < Len(waves.waves)
              THEN /\ ctl' = [ctl EXCEPT !.waveIdx = @ + 1]
                   /\ pc' = "waveStart"
              ELSE /\ ctl' = [ctl EXCEPT !.iterations = @ + 1]
                   /\ pc' = "iterStart"
    /\ UNCHANGED dagVars
    /\ UNCHANGED callVars
    /\ UNCHANGED <<state, disk, pending, exec, aborted, result, clock, history>>

\* a barrier that, after a failed wave, goes on with the next iteration
BarrierContinues ==
    /\ pc = "barrier"
    /\ LET wave == waves.waves[ctl.waveIdx + 1]
           errs == WaveErrors(wave, ctl.iteration, exec)
       IN  /\ \A n \in Range(wave) : exec[n] \in Settled
           /\ IF errs # << >>
              THEN /\ ctl' = [ctl EXCEPT !.failed = TRUE, !.errors = @ \o errs]
                   /\ pc' = "iterStart"
              ELSE IF ctl.waveIdx + 1 < Len(waves.waves)
              THEN /\ ctl' = [ctl EXCEPT !.waveIdx = @ + 1]
                   /\ pc' = "waveStart"
              ELSE /\ ctl' = [ctl EXCEPT !.iterations = @ + 1]
                   /\ pc' = "iterStart"
    /\ UNCHANGED dagVars
    /\ UNCHANGED callVars
    /\ UNCHANGED <<state, disk, pending, exec, aborted, result, clock, history>>

\* a barrier that notes the failure of a wave but not its errors
BarrierDropsErrors ==
    /\ pc = "barrier"
    /\ LET wave == waves.waves[ctl.waveIdx + 1]
           errs == WaveErrors(wave, ctl.iteration, exec)
       IN  /\ \A n \in Range(wave) : exec[n] \in Settled
           /\ IF errs # << >>
              THEN /\ ctl' = [ctl EXCEPT !.failed = TRUE]
                   /\ pc' = "finalise"
              ELSE IF ctl.waveIdx + 1 < Len(waves.waves)
              THEN /\ ctl' = [ctl EXCEPT !.waveIdx = @ + 1]
                   /\ pc' = "waveStart"
              ELSE /\ ctl' = [ctl EXCEPT !.iterations = @ + 1]
                   /\ pc' = "iterStart"
    /\ UNCHANGED dagVars
    /\ UNCHANGED callVars
    /\ UNCHANGED <<state, disk, pending, exec, aborted, result, clock, history>>

\* a barrier that, after a wave that succeeded, launches that wave again
BarrierRepeatsWave ==
    /\ pc = "barrier"
    /\ LET wave == waves.waves[ctl.waveIdx + 1]
           errs == WaveErrors(wave, ctl.iteration, exec)
       IN  /\ \A n \in Range(wave) : exec[n] \in Settled
           /\ IF errs # << >>
              THEN /\ ctl' = [ctl EXCEPT !.failed = TRUE, !.errors = @ \o errs]
                   /\ pc' = "finalise"
              ELSE IF ctl.waveIdx + 1 < Len(waves.waves)
              THEN /\ ctl' = ctl
                   /\ pc' = "waveStart"
              ELSE /\ ctl' = [ctl EXCEPT !.iterations = @ + 1]
                   /\ pc' = "iterStart"
    /\ UNCHANGED dagVars
    /\ UNCHANGED callVars
    /\ UNCHANGED <<state, disk, pending, exec, aborted, result, clock, history>>

\* the barrier: every call of the wave has settled.  A failed wave ends the
\* iteration and the loop over the iterations; the last wave completes the
\* iteration
Barrier ==
    /\ pc = "barrier"
    /\ LET wave == waves.waves[ctl.waveIdx + 1]
           errs == WaveErrors(wave, ctl.iteration, exec)
       IN  /\ \A n \in Range(wave) : exec[n] \in Settled
           /\ IF errs # << >>
              THEN /\ ctl' = [ctl EXCEPT !.failed = TRUE, !.errors = @ \o errs]
                   /\ pc' = "finalise"
              ELSE IF ctl.waveIdx + 1 < Len(waves.waves)
              THEN /\ ctl' = [ctl EXCEPT !.waveIdx = @ + 1]
                   /\ pc' = "waveStart"
              ELSE /\ ctl' = [ctl EXCEPT !.iterations = @ + 1]
                   /\ pc' = "iterStart"
    /\ UNCHANGED dagVars
    /\ UNCHANGED callVars
    /\ UNCHANGED <<state, disk, pending, exec, aborted, result, clock, history>>

\* a result that counts the iterations begun, not those completed
FinaliseCountsBegun ==
    /\ pc = "finalise"
    /\ LET status == FinalStatus(aborted, ctl.failed)
       IN  /\ state' = TrackerUpdatePipeline(state, [status |-> status, completedAt |-> clock + 1])
           /\ result' = [status |-> status, iterations |-> ctl.iteration, errors |-> ctl.errors]
    /\ clock' = clock + 1
    /\ disk' = JsonStringify(state')
    /\ pc' = "finished"
    /\ UNCHANGED dagVars
    /\ UNCHANGED callVars
    /\ UNCHANGED <<pending, exec, ctl, aborted, history>>

\* after the loop: the final status is recorded and the result returned
Finalise ==
    /\ pc = "finalise"
    /\ LET status == FinalStatus(aborted, ctl.failed)
       IN  /\ state' = TrackerUpdatePipeline(state, [status |-> status, completedAt |-> clock + 1])
           /\ result' = [status |-> status, iterations |-> ctl.iterations, errors |-> ctl.errors]
    /\ clock' = clock + 1
    /\ disk' = JsonStringify(state')
    /\ pc' = "finished"
    /\ UNCHANGED dagVars
    /\ UNCHANGED callVars
    /\ UNCHANGED <<pending, exec, ctl, aborted, history>>

\* the caller raises the abort signal while the controller runs
Abort ==
    /\ pc \in {"iterStart", "waveStart", "barrier", "finalise"}
    /\ ~aborted
    /\ aborted' = TRUE
    /\ UNCHANGED dagVars
    /\ UNCHANGED callVars
    /\ UNCHANGED <<pc, state, disk, pending, exec, ctl, result, clock, history>>

(***************************************************************************)
(* The StateTracker used on its own: callers that call updateAgent, each   *)
(* for an agent of its own, and updatePipeline, and a fresh tracker that   *)
(* calls load() on the same run directory.                                 *)
(***************************************************************************)
\* the updates callers pass to updateAgent: those of executeSwarmAgent
AgentUpdates(now) ==
    {RunningUpdate(1, now), SettleUpdate("ok", now), SettleUpdate("fail", now)}

\* the updates callers pass to updatePipeline
PipelineUpdates(now) ==
    {[iteration |-> 1], [status |-> "failed", completedAt |-> now]}

\* a call of updatePipeline is in flight
PipelineCallInFlight == \E c \in calls : c.op = "updatePipeline"

\* stateTracker.updateAgent(name, update) up to its await: an unknown name
\* returns at once, a known agent is updated and the write begins
CallUpdateAgent(name, update) ==
    /\ pc = "inited"
    /\ ncalls < MaxCalls
    /\ ~PipelineCallInFlight
    /\ \A c \in calls : c.name # name
    /\ ncalls' = ncalls + 1
    /\ state' = TrackerUpdateAgent(state, name, update)
    /\ IF ~KnowsAgent(state, name)
       THEN UNCHANGED <<calls, overlapped>>
       ELSE /\ calls' = calls \cup {[op |-> "updateAgent", name |-> name, update |-> update,
                                      doc |-> JsonStringify(state'), opened |-> FALSE]}
            /\ overlapped' = (overlapped \/ calls # {})
    /\ UNCHANGED dagVars
    /\ UNCHANGED <<pc, disk, pending, exec, ctl, aborted, result, clock, history, loaded>>

\* stateTracker.updatePipeline(update) up to its await, called while no other
\* call is in flight
CallUpdatePipeline(update) ==
    /\ pc = "inited"
    /\ ncalls < MaxCalls
    /\ calls = {}
    /\ ncalls' = ncalls + 1
    /\ state' = TrackerUpdatePipeline(state, update)
    /\ calls' = {[op |-> "updatePipeline", name |-> << >>, update |-> update,
                  doc |-> JsonStringify(state'), opened |-> FALSE]}
    /\ UNCHANGED dagVars
    /\ UNCHANGED <<pc, disk, pending, exec, ctl, aborted, result, clock, history,
                   overlapped, loaded>>

\* #persist of a call: Bun.write opens pipeline.json for writing, which
\* empties it
WriteOpens(c) ==
    /\ c \in calls
    /\ ~c.opened
    /\ disk' = TruncatedFile
    /\ calls' = (calls \ {c}) \cup {[c EXCEPT !.opened = TRUE]}
    /\ UNCHANGED dagVars
    /\ UNCHANGED <<pc, state, pending, exec, ctl, aborted, result, clock, history,
                   ncalls, overlapped, loaded>>

\* a call that returns without its write having been made
CallReturnUnwritten(c) ==
    /\ c \in calls
    /\ c.opened
    /\ calls' = calls \ {c}
    /\ UNCHANGED dagVars
    /\ UNCHANGED <<pc, state, disk, pending, exec, ctl, aborted, result, clock, history,
                   ncalls, overlapped, loaded>>

\* #persist of a call: Bun.write has written the document, the awaited
\* write completes and the call returns
CallReturn(c) ==
    /\ c \in calls
    /\ c.opened
    /\ disk' = c.doc
    /\ calls' = calls \ {c}
    /\ UNCHANGED dagVars
    /\ UNCHANGED <<pc, state, pending, exec, ctl, aborted, result, clock, history,
                   ncalls, overlapped, loaded>>

\* new StateTracker(workspace, name).load() in another process
Load ==
    /\ pc \in {"constructed", "inited"}
    /\ loaded = Unset
    /\ loaded' = TrackerLoad(NewStateTracker(SwarmName, clock), disk)
    /\ UNCHANGED dagVars
    /\ UNCHANGED <<pc, state, disk, pending, exec, ctl, aborted, result, clock, history,
                   calls, ncalls, overlapped>>

InitRun ==
    /\ state = Null
    /\ disk = Null
    /\ pending = [n \in AgentNames |-> Null]
    /\ exec = [n \in AgentNames |-> "idle"]
    /\ ctl = [iteration |-> 0, waveIdx |-> 0, failed |-> FALSE, iterations |-> 0, errors |-> << >>]
    /\ aborted = FALSE
    /\ result = Null
    /\ clock = 0
    /\ history = {}
    /\ calls = {}
    /\ ncalls = 0
    /\ overlapped = FALSE
    /\ loaded = Unset

InitDag ==
    /\ \/ def \in DagDefs /\ deps = Null /\ pc = "start"
       \/ def = Null /\ deps \in GivenGraphs /\ pc = "built"
    /\ cycles = Unset
    /\ waves = Unset
    /\ InitRun

NextDag == BuildGraph \/ DetectCycles \/ CallBuildWaves

\* the graph functions applied to bounded definitions and graphs
SpecDag == InitDag /\ [][NextDag]_vars

Init ==
    /\ def \in RunDefs
    /\ deps = Null
    /\ pc = "start"
    /\ cycles = Unset
    /\ waves = Unset
    /\ InitRun

Next ==
    \/ BuildGraph
    \/ DetectCycles
    \/ CycleExit
    \/ BuildWaves
    \/ NewTracker
    \/ InitTracker
    \/ RunStart
    \/ IterStart
    \/ WaveStart
    \/ \E a \in AgentNames : ExecInvoke(a)
    \/ \E a \in AgentNames, outcome \in Outcomes : ExecSettle(a, outcome)
    \/ \E a \in AgentNames : ExecReturn(a)
    \/ Barrier
    \/ Finalise
    \/ Abort

\* a run of the run-pipeline.ts script
Spec == Init /\ [][Next]_vars

\* the steps of the program itself: every step but the caller's abort
Progress ==
    \/ BuildGraph
    \/ DetectCycles
    \/ CycleExit
    \/ BuildWaves
    \/ NewTracker
    \/ InitTracker
    \/ RunStart
    \/ IterStart
    \/ WaveStart
    \/ \E a \in AgentNames : ExecInvoke(a)
    \/ \E a \in AgentNames, outcome \in Outcomes : ExecSettle(a, outcome)
    \/ \E a \in AgentNames : ExecReturn(a)
    \/ Barrier
    \/ Finalise

\* a run in which the event loop runs every continuation that is ready,
\* every write lands, and the external executor settles every call
FairSpec == Spec /\ WF_vars(Progress)

\* the definitions whose agents, target count and mode are given to init
TrackerDefs ==
    {DefOf(BaseOrder, {}, "pipeline", 1), DefOf(BaseOrder, {}, "parallel", MaxIter)}

InitTrackerCalls ==
    /\ def \in TrackerDefs
    /\ deps = Null
    /\ cycles = Unset
    /\ waves = Unset
    /\ pc = "waved"
    /\ InitRun

NextTrackerCalls ==
    \/ NewTracker
    \/ InitTracker
    \/ \E name \in AgentNames \cup {UnknownName}, update \in AgentUpdates(clock) :
          CallUpdateAgent(name, update)
    \/ \E update \in PipelineUpdates(clock) : CallUpdatePipeline(update)
    \/ \E c \in calls : WriteOpens(c)
    \/ \E c \in calls : CallReturn(c)
    \/ Load

\* a StateTracker that is constructed, initialised and then called by
\* callers of its own, while another process loads the run directory
SpecTracker == InitTrackerCalls /\ [][NextTrackerCalls]_vars

(***************************************************************************)
(* Properties.                                                             *)
(***************************************************************************)
\* every dependency of the graph is a key of the graph
ClosedGraph(g) == \A n \in Range(g.keys) : g.get[n] \subseteq Range(g.keys)

\* the keys can be put in an order in which every dependency comes first
AcyclicGraph(g) ==
    \E p \in OrdersOf(g.keys) :
        \A i \in 1..Len(p) : \A d \in g.get[p[i]] : \E j \in 1..(i - 1) : p[j] = d

\* the indices of the waves that hold agent n
WavesOf(ws, n) == {k \in 1..Len(ws) : n \in Range(ws[k])}

\* the number of places in which n occurs in the wave list
Occurrences(ws, n) ==
    Cardinality({<<k, i>> \in (1..Len(ws)) \X (1..NumAgents) : i <= Len(ws[k]) /\ ws[k][i] = n})

\* C1: for an acyclic dependency graph buildExecutionWaves returns non-empty
\* waves in which every key of the graph occurs exactly once and nothing
\* else occurs, and every dependency of an agent of wave k lies in a wave
\* before k.
C1_WavesPartitionRespectsDeps ==
    (pc = "waved" /\ ClosedGraph(deps) /\ AcyclicGraph(deps)) =>
        /\ ~waves.threw
        /\ \A k \in 1..Len(waves.waves) :
              /\ waves.waves[k] # << >>
              /\ Range(waves.waves[k]) \subseteq Range(deps.keys)
        /\ \A n \in Range(deps.keys) :
              /\ Occurrences(waves.waves, n) = 1
              /\ \A d \in deps.get[n] :
                    \E j \in WavesOf(waves.waves, d) :
                        \A k \in WavesOf(waves.waves, n) : j < k

\* an acyclic graph whose waves are a wave of two agents and a wave of one,
\* the later wave depending on both agents of the earlier one
C1_Witness ==
    /\ pc = "waved"
    /\ ClosedGraph(deps) /\ AcyclicGraph(deps)
    /\ Len(waves.waves) = 2
    /\ Len(waves.waves[1]) = 2
    /\ \E n \in Range(waves.waves[2]) : deps.get[n] = Range(waves.waves[1])

\* the controller's run has begun
InRun == pc \in {"iterStart", "waveStart", "barrier", "finalise", "finished"}

\* the index of the wave that holds agent n
WaveOf(n) == CHOOSE k \in 1..Len(waves.waves) : n \in Range(waves.waves[k])

\* the agents whose executeSwarmAgent call of the current iteration has begun
Launched(n) == exec[n] # "idle"

Events(kind) == {h \in history : h[1] = kind}

TerminalStatus == {"completed", "failed", "aborted"}

\* C2: within an iteration no agent of wave k+1 is launched before every
\* agent of wave k has settled (its executeSwarmAgent call returned or threw).
C2_WaveBarrier ==
    InRun =>
        \A a, b \in AgentNames :
            (WaveOf(b) = WaveOf(a) + 1 /\ Launched(b)) => exec[a] \in Settled

\* an agent of the second wave is in flight after a first wave of two agents
C2_Witness ==
    /\ pc = "barrier"
    /\ ctl.waveIdx = 1
    /\ Len(waves.waves[1]) = 2
    /\ \E b \in Range(waves.waves[2]) : exec[b] = "external"

\* the agents that n depends on by the definition: its known waits_for
\* names, the agents that report to it, and, in a pipeline or sequential
\* definition without any such edge, its predecessor in declaration order
DeclaredDeps(n) ==
    LET known == Range(def.agentOrder)
        explicit(m) == (def.waitsFor[m] \cap known) \cup {r \in known : m \in def.reportsTo[r]}
        chained == def.mode \in {"pipeline", "sequential"} /\ \A m \in known : explicit(m) = {}
    IN  IF chained
        THEN {def.agentOrder[i] : i \in {j \in 1..(Len(def.agentOrder) - 1) : def.agentOrder[j + 1] = n}}
        ELSE explicit(n)

\* C3: whenever an agent is launched in an iteration, every agent it depends
\* on has settled with status completed in that iteration.
C3_DependenciesCompletedBeforeLaunch ==
    InRun =>
        \A n \in AgentNames :
            Launched(n) =>
                \A d \in DeclaredDeps(n) :
                    /\ exec[d] = "resolvedOk"
                    /\ state.agents[d].status = "completed"
                    /\ state.agents[d].iteration = ctl.iteration

\* in the second iteration an agent is in flight whose dependency comes
\* from a reports_to entry
C3_Witness ==
    /\ pc = "barrier"
    /\ ctl.iteration = 2
    /\ \E n \in AgentNames :
          /\ exec[n] = "external"
          /\ \E d \in DeclaredDeps(n) : n \in def.reportsTo[d]

\* C4: if an agent of wave k fails in an iteration, no agent of a later wave
\* is ever launched in that iteration.
C4_FailFastWithinIteration ==
    InRun =>
        \A f \in Events("fail"), l \in Events("launch") :
            f[2] = l[2] => WaveOf(l[3]) <= WaveOf(f[3])

\* the run is over, an agent of the first of two waves failed by throwing
C4_Witness ==
    /\ pc = "finished"
    /\ Len(waves.waves) = 2
    /\ \E n \in Range(waves.waves[1]) : exec[n] = "rejected"

\* C5: when exactly one agent fails during a run and no cancellation is
\* requested, the result has status failed and exactly one error entry.
C5_OneFailureOneError ==
    (pc = "finished" /\ ~aborted /\ Cardinality(Events("fail")) = 1) =>
        /\ result.status = "failed"
        /\ Len(result.errors) = 1

\* the sole agent of the first of several waves failed, nothing was cancelled
C5_Witness ==
    /\ pc = "finished"
    /\ ~aborted
    /\ Cardinality(Events("fail")) = 1
    /\ Len(waves.waves) >= 2 /\ Len(waves.waves[1]) = 1
    /\ exec[waves.waves[1][1]] = "resolvedFail"

\* every agent succeeded in every iteration of the run
AllIterationsSucceeded ==
    \A i \in 1..def.targetCount, n \in AgentNames : <<"ok", i, n>> \in history

\* C6: when the loop has ended the status, in the result and in the
\* persisted state, is completed iff all iterations succeeded and nothing was
\* cancelled, aborted whenever a cancellation was requested, and failed
\* otherwise.
C6_FinalStatusClassification ==
    pc = "finished" =>
        /\ state.status = result.status
        /\ disk.status = result.status
        /\ result.status = (IF aborted THEN "aborted"
                            ELSE IF AllIterationsSucceeded THEN "completed"
                            ELSE "failed")

\* the run was cancelled after every iteration had succeeded
C6_Witness ==
    /\ pc = "finished"
    /\ aborted
    /\ AllIterationsSucceeded
    /\ def.targetCount = 2
    /\ disk.status = "aborted"

\* C7: once an iteration has failed no agent is launched in a later
\* iteration, and the run ends in that iteration with a terminal status.
C7_HaltOnFailedIteration ==
    /\ [](InRun =>
            /\ \A f \in Events("fail"), l \in Events("launch") : l[2] <= f[2]
            /\ (pc = "finished" /\ Events("fail") # {}) =>
                  /\ result.status \in TerminalStatus \ {"completed"}
                  /\ \A f \in Events("fail") : state.iteration = f[2]
                  /\ result.iterations < def.targetCount)
    /\ (Events("fail") # {}) ~> (pc = "finished")

\* the first of two iterations failed and the run is over
C7_Witness ==
    /\ pc = "finished"
    /\ def.targetCount = 2
    /\ \E f \in Events("fail") : f[2] = 1
    /\ result.status = "failed"

\* C8: once the abort signal is raised the controller launches no agent;
\* the agents in flight settle on their own and then the run ends.
C8_NoLaunchAfterAbort ==
    /\ [][aborted => Events("launch")' = Events("launch")]_vars
    /\ aborted ~> (pc = "finished" /\ \A n \in AgentNames : exec[n] \in Settled \cup {"idle"})

\* the run was cancelled while the first wave was in flight: that wave's
\* agent settled, the agents of the later wave were never launched
C8_Witness ==
    /\ pc = "finished"
    /\ aborted
    /\ Len(waves.waves) = 2
    /\ \A n \in Range(waves.waves[1]) : exec[n] = "resolvedOk"
    /\ \A n \in Range(waves.waves[2]) : exec[n] = "idle"

\* C9: a result with status failed has a non-empty error list.
C9_FailedHasErrors ==
    (pc = "finished" /\ result.status = "failed") => result.errors # << >>

\* a run that ended failed
C9_Witness ==
    /\ pc = "finished"
    /\ result.status = "failed"
    /\ Len(result.errors) = 2

\* the place of a pipeline status in idle -> running -> terminal
StatusRank(status) ==
    CASE status = "idle" -> 0 [] status = "running" -> 1 [] OTHER -> 2

\* the status the tracker holds at each position of the driver
StatusFollowsPosition ==
    /\ pc = "constructed" => state.status = "idle"
    /\ pc \in {"inited", "iterStart", "waveStart", "barrier", "finalise"} => state.status = "running"
    /\ pc = "finished" => state.status \in TerminalStatus

\* a step moves the status forward along idle -> running -> terminal and
\* leaves a terminal status as it is
StatusMovesForward ==
    (state # Null /\ state' # Null) =>
        /\ StatusRank(state.status) <= StatusRank(state'.status)
        /\ state.status \in TerminalStatus => state'.status = state.status

\* C10: the tracked status is idle from construction until init, running
\* from init until the controller finishes, then one of completed, failed,
\* aborted; it only moves forward and a terminal status never changes.
C10_StatusLifecycle ==
    [](StatusFollowsPosition) /\ [][StatusMovesForward]_vars

\* the run has ended with the tracked status aborted
C10_Witness ==
    /\ pc = "finished"
    /\ state.status = "aborted"
    /\ result.iterations = 1


(***************************************************************************)
(* Properties of the graph functions.                                      *)
(***************************************************************************)
\* the dependencies the graph holds for name n
DepsOf(g, n) == IF n \in DOMAIN g.get THEN g.get[n] ELSE {}

RECURSIVE ReachN(_, _, _)
\* the names reached from the set S by at most k further edges
ReachN(g, S, k) ==
    IF k = 0 THEN S
    ELSE ReachN(g, S \cup UNION {DepsOf(g, m) : m \in S}, k - 1)

\* the names n depends on, directly or transitively
Reaches(g, n) == ReachN(g, DepsOf(g, n), NumAgents)

\* n lies on a dependency cycle (a self-dependency is a cycle)
OnCycle(g, n) == n \in Reaches(g, n)

HasCycle(g) == \E n \in Range(g.keys) : OnCycle(g, n)

\* n can never be scheduled: it lies on a cycle, or depends, directly or
\* transitively, on an agent on a cycle or on a name that is no key
Blocked(g, n) ==
    \/ OnCycle(g, n)
    \/ \E m \in Reaches(g, n) : m \notin Range(g.keys) \/ OnCycle(g, m)

\* detectCycles has been called
Checked == pc \in {"checked", "waved"}

\* buildDependencyGraph has been called on a definition
Built == pc \in {"built", "checked", "waved"} /\ def # Null

\* C11: detectCycles returns a non-empty list for every graph that contains
\* a cycle, a self-dependency included, and, the dependencies being agents
\* of the graph, returns null if and only if the graph has no cycle.
C11_NullIffAcyclic ==
    Checked =>
        /\ HasCycle(deps) => (cycles # Null /\ cycles.names # << >>)
        /\ ClosedGraph(deps) => (cycles = Null <=> ~HasCycle(deps))

\* a graph whose only cycle is the self-dependency of one agent
C11_Witness ==
    /\ Checked
    /\ ClosedGraph(deps)
    /\ \E n \in Range(deps.keys) : n \in deps.get[n]
    /\ cycles # Null
    /\ Len(cycles.names) = 1

Known == Range(def.agentOrder)

\* the dependencies the waits_for and reports_to entries give agent m
ExplicitOf(m) ==
    (def.waitsFor[m] \cap Known) \cup {r \in Known : m \in def.reportsTo[r]}

\* the definition has no waits_for or reports_to edge and its mode chains
ChainApplies ==
    /\ def.mode \in {"pipeline", "sequential"}
    /\ \A m \in Known : ExplicitOf(m) = {}

\* the place of agent n in the declaration order
OrderIndex(n) == CHOOSE i \in 1..Len(def.agentOrder) : def.agentOrder[i] = n

\* C13: in the graph of buildDependencyGraph every agent depends on each
\* known agent of its waits_for list; a name that is no agent of the
\* definition is neither a key nor a dependency; and where nothing else adds
\* edges (no reports_to entry, mode parallel) an agent's dependencies are
\* exactly the known names of its waits_for list.
C13_WaitsForKnownOnly ==
    Built =>
        /\ deps.keys = def.agentOrder
        /\ \A n \in Known :
              /\ (def.waitsFor[n] \cap Known) \subseteq deps.get[n]
              /\ deps.get[n] \subseteq Known
              /\ ((\A m \in Known : def.reportsTo[m] = {}) /\ def.mode = "parallel")
                    => deps.get[n] = def.waitsFor[n] \cap Known

\* an agent lists a known agent and an unknown name in waits_for
C13_Witness ==
    /\ Built
    /\ def.mode = "parallel"
    /\ \E n \in Known :
          /\ UnknownName \in def.waitsFor[n]
          /\ \E m \in Known \ {n} : m \in def.waitsFor[n] /\ deps.get[n] = {m}

\* C14: if agent A lists known agent B in reports_to then B depends on A in
\* the graph, A depends on B only if A waits for B or B reports to A as
\* well, and when the waves are built A is in a strictly earlier wave than B.
C14_ReportsToInverted ==
    Built =>
        \A A, B \in Known :
            B \in def.reportsTo[A] =>
                /\ A \in deps.get[B]
                /\ B \in deps.get[A] => (B \in def.waitsFor[A] \/ A \in def.reportsTo[B])
                /\ (pc = "waved" /\ ~waves.threw) =>
                      \A i \in WavesOf(waves.waves, A), j \in WavesOf(waves.waves, B) : i < j

\* a pipeline definition in which an agent reports to an agent declared
\* before it, and the waves are built
C14_Witness ==
    /\ Built
    /\ pc = "waved"
    /\ ~waves.threw
    /\ def.mode = "pipeline"
    /\ \E A, B \in Known :
          /\ B \in def.reportsTo[A]
          /\ OrderIndex(B) < OrderIndex(A)
          /\ WavesOf(waves.waves, A) = {1}
          /\ WavesOf(waves.waves, B) = {2}

\* C15: the graph of buildDependencyGraph holds an edge that no waits_for or
\* reports_to entry gives if and only if the mode is pipeline or sequential
\* and no entry gives any edge; otherwise the graph holds exactly the edges
\* of the entries.
C15_ChainGating ==
    Built =>
        /\ (\E n \in Known : deps.get[n] \ ExplicitOf(n) # {}) <=> ChainApplies
        /\ ~ChainApplies => \A n \in Known : deps.get[n] = ExplicitOf(n)

\* a sequential definition whose only edge belongs to an agent that is not
\* declared first: no chain is added
C15_Witness ==
    /\ Built
    /\ def.mode = "sequential"
    /\ deps.get[def.agentOrder[1]] = {}
    /\ \E n \in Known : ExplicitOf(n) # {}
    /\ \A n \in Known : deps.get[n] = ExplicitOf(n)
    /\ Cardinality({n \in Known : deps.get[n] # {}}) = 1

\* C16: when the chain applies the first declared agent depends on nothing
\* and every other agent on exactly the agent declared before it, the graph
\* has no cycle and detectCycles says so, and buildExecutionWaves returns
\* one wave per agent, each of that one agent, in declaration order.
C16_ImplicitChain ==
    (Built /\ ChainApplies) =>
        /\ \A i \in 1..Len(def.agentOrder) :
              deps.get[def.agentOrder[i]] = (IF i = 1 THEN {} ELSE {def.agentOrder[i - 1]})
        /\ ~HasCycle(deps)
        /\ Checked => cycles = Null
        /\ pc = "waved" =>
              /\ ~waves.threw
              /\ waves.waves = [i \in 1..Len(def.agentOrder) |-> <<def.agentOrder[i]>>]

\* a sequential definition declared in an order that is not the sorted one,
\* with its waves built
C16_Witness ==
    /\ Built
    /\ ChainApplies
    /\ pc = "waved"
    /\ def.mode = "sequential"
    /\ Len(waves.waves) = NumAgents
    /\ StrLess(waves.waves[2][1], waves.waves[1][1])

\* C17: in the graph buildDependencyGraph returns no agent depends on itself.
C17_NoSelfDependency ==
    Built => \A n \in Known : n \notin deps.get[n]

(***************************************************************************)
(* Properties of the state tracker.                                        *)
(***************************************************************************)
\* the properties of AgentState and of SwarmState (agents apart)
AgentFields == {"name", "status", "iteration", "wave", "startedAt", "completedAt", "error"}
StateFields == {"name", "status", "mode", "iteration", "targetCount", "startedAt", "completedAt"}

\* reading property f of the object gives a value, not undefined
Present(obj, f) == f \in DOMAIN obj /\ ~(f = "error" /\ obj[f] = Undefined)

\* the two objects read the same in every one of the fields
SameObject(a, b, fields) ==
    \A f \in fields :
        /\ Present(a, f) <=> Present(b, f)
        /\ Present(a, f) => a[f] = b[f]

\* the two snapshots hold the same run: the same top-level values, the same
\* agents, and for each agent the same values
SameSnapshot(a, b) ==
    /\ a # Null /\ b # Null
    /\ a # TruncatedFile /\ b # TruncatedFile
    /\ SameObject(a, b, StateFields)
    /\ DOMAIN a.agents = DOMAIN b.agents
    /\ \A n \in DOMAIN a.agents : SameObject(a.agents[n], b.agents[n], AgentFields)

\* C18: after init and calls of updateAgent and updatePipeline that each
\* returned before the next began, load() of a fresh tracker on the same run
\* directory returns a snapshot equal to the writer's state, every agent's
\* status and error included.
C18_RoundTrip ==
    [][(loaded' # loaded /\ pc = "inited" /\ calls = {} /\ ~overlapped)
           => (SameSnapshot(loaded'.returned, state) /\ loaded'.state = loaded'.returned)]_vars

\* loaded after one agent was taken to failed with an error text, the
\* others untouched
C18_Witness ==
    /\ pc = "inited"
    /\ ~overlapped
    /\ ncalls = 1
    /\ calls = {}
    /\ loaded # Unset /\ loaded.returned # Null
    /\ Cardinality({n \in AgentNames : loaded.returned.agents[n].status = "pending"}) = NumAgents - 1
    /\ \E n \in AgentNames :
          /\ loaded.returned.agents[n].status = "failed"
          /\ loaded.returned.agents[n].error = ExitError
          /\ state.agents[n].error = ExitError

\* the snapshot holds what the call was to set
HoldsEffect(c, file) ==
    /\ file # Null /\ file # TruncatedFile
    /\ LET target == IF c.op = "updateAgent" THEN file.agents[c.name] ELSE file
       IN  \A f \in DOMAIN c.update :
               /\ Present(c.update, f) <=> Present(target, f)
               /\ Present(c.update, f) => target[f] = c.update[f]

\* the snapshot holds what init(agentNames, targetCount, mode) was to set
HoldsInit(file) ==
    /\ file # Null
    /\ file.status = "running"
    /\ file.targetCount = def.targetCount
    /\ file.mode = def.mode
    /\ DOMAIN file.agents = Range(def.agentOrder)
    /\ \A n \in DOMAIN file.agents :
          /\ file.agents[n].name = n
          /\ file.agents[n].status = "pending"

\* C19: at the step at which a call of init, of updateAgent for a known
\* agent or of updatePipeline returns, pipeline.json holds the effect of that
\* call.
C19_PersistBeforeReturn ==
    [][/\ \A c \in calls : (~\E d \in calls' : d.op = c.op /\ d.name = c.name) => HoldsEffect(c, disk')
       /\ (pc = "constructed" /\ pc' = "inited") => HoldsInit(disk')]_vars

\* three calls have returned, the last of them a failure with its error text
C19_Witness ==
    /\ pc = "inited"
    /\ ncalls = MaxCalls
    /\ calls = {}
    /\ disk.status = "failed"
    /\ \E n \in AgentNames :
          /\ disk.agents[n].status = "failed"
          /\ disk.agents[n].error = ExitError

\* C20: once the updateAgent calls that several callers made concurrently,
\* each for its own agent, have all returned, pipeline.json equals the
\* tracker's state: it holds every agent's latest update.
C20_ConcurrentUpdatesPersisted ==
    (pc = "inited" /\ calls = {}) => SameSnapshot(disk, state)

\* the file holds a whole document: every top-level value and, for every
\* agent of the run, its entry
CompleteSnapshot(file) ==
    /\ file # Null /\ file # TruncatedFile
    /\ (StateFields \ {"completedAt"}) \subseteq DOMAIN file
    /\ DOMAIN file.agents = Range(def.agentOrder)
    /\ \A n \in DOMAIN file.agents :
          {"name", "status", "iteration", "wave"} \subseteq DOMAIN file.agents[n]

\* C21: at every moment after init an external reader of pipeline.json
\* reads a complete snapshot of the run, stale perhaps, never a partial
\* document.
C21_ObserverSeesSnapshot ==
    pc = "inited" => CompleteSnapshot(disk)

\* C22: a call of updateAgent with a name that is no agent of the run leaves
\* the tracker's state and pipeline.json as they are, starts no write, and
\* no entry for that name ever exists in the state or in the file.
C22_UnknownAgentNoOp ==
    /\ [][(\E update \in AgentUpdates(clock) : CallUpdateAgent(UnknownName, update))
             => (state' = state /\ disk' = disk /\ calls' = calls)]_vars
    /\ [](pc = "inited" =>
             /\ UnknownName \notin DOMAIN state.agents
             /\ CompleteSnapshot(disk) => UnknownName \notin DOMAIN disk.agents)

\* every call made after init named an unknown agent: state and file are as
\* init left them
C22_Witness ==
    /\ pc = "inited"
    /\ ncalls = MaxCalls
    /\ calls = {}
    /\ state.iteration = 0
    /\ \A n \in AgentNames : state.agents[n].status = "pending"
    /\ SameSnapshot(disk, state)

\* C23: when init(agentNames, targetCount, mode) has returned the state
\* holds exactly the named agents, each pending with iteration 0, wave 0 and
\* no error, the status running, the given target count and mode, and
\* pipeline.json holds the same.
C23_InitPostcondition ==
    (pc = "inited" /\ ncalls = 0) =>
        /\ state.status = "running"
        /\ state.targetCount = def.targetCount
        /\ state.mode = def.mode
        /\ state.iteration = 0
        /\ DOMAIN state.agents = Range(def.agentOrder)
        /\ \A n \in DOMAIN state.agents :
              state.agents[n] = [name |-> n, status |-> "pending", iteration |-> 0, wave |-> 0]
        /\ CompleteSnapshot(disk)
        /\ SameSnapshot(disk, state)

\* init has returned for a parallel run of several iterations
C23_Witness ==
    /\ pc = "inited"
    /\ ncalls = 0
    /\ state.mode = "parallel"
    /\ state.targetCount = MaxIter
    /\ disk.mode = "parallel"

\* C26: load() returns null and leaves the tracker's state as it was when
\* pipeline.json is absent or is no document that parses; otherwise the
\* tracker's state becomes the snapshot in the file and load() returns it.
C26_LoadContract ==
    [][loaded' # loaded =>
          IF disk = Null \/ ~CompleteSnapshot(disk)
          THEN /\ loaded'.returned = Null
               /\ loaded'.state = NewStateTracker(SwarmName, clock)
          ELSE /\ loaded'.returned = disk
               /\ loaded'.state = disk]_vars

\* load() was called while a write had emptied the file: it returned null
\* and the fresh tracker kept the state of its constructor
C26_Witness ==
    /\ pc = "inited"
    /\ disk = TruncatedFile
    /\ ncalls = 1
    /\ loaded # Unset
    /\ loaded.returned = Null
    /\ loaded.state = NewStateTracker(SwarmName, clock)

(***************************************************************************)
(* Properties of the executor, of the gate and of the scheduler.           *)
(***************************************************************************)
\* C24: while executeSwarmAgent is about to call or has called the external
\* executor the agent's status is running with the iteration given and a
\* start time; once the external executor has returned the status is
\* completed for exit code zero, with no error, and failed otherwise, with
\* the reported error text, and the completion time is recorded.
C24_ExecutorTransitions ==
    InRun =>
        \A a \in AgentNames :
            /\ exec[a] \in {"starting", "external"} =>
                  /\ state.agents[a].status = "running"
                  /\ state.agents[a].iteration = ctl.iteration
                  /\ "startedAt" \in DOMAIN state.agents[a]
            /\ exec[a] \in {"endingOk", "resolvedOk"} =>
                  /\ state.agents[a].status = "completed"
                  /\ "completedAt" \in DOMAIN state.agents[a]
                  /\ ~Present(state.agents[a], "error")
            /\ exec[a] \in {"endingFail", "resolvedFail"} =>
                  /\ state.agents[a].status = "failed"
                  /\ "completedAt" \in DOMAIN state.agents[a]
                  /\ state.agents[a].error = ExitError

\* in the second iteration one agent has returned with a non-zero exit code
\* while the external executor of another is running
C24_Witness ==
    /\ pc = "barrier"
    /\ ctl.iteration = 2
    /\ \E a, b \in AgentNames :
          /\ exec[a] = "resolvedFail"
          /\ exec[b] = "external"
          /\ state.agents[b].iteration = 2

\* C25: when the external executor throws, the agent is failed with the
\* exception's message as its error, and the call ends by rethrowing, with
\* that status and error in pipeline.json; it does not return a result.
C25_ThrowRecordedAndRethrown ==
    /\ [](InRun =>
            \A a \in AgentNames :
                exec[a] \in {"endingThrow", "rejected"} =>
                    /\ state.agents[a].status = "failed"
                    /\ state.agents[a].error = ThrownError
                    /\ "completedAt" \in DOMAIN state.agents[a])
    /\ [][\A a \in AgentNames :
            (exec[a] = "endingThrow" /\ exec'[a] # exec[a]) =>
                /\ exec'[a] = "rejected"
                /\ CompleteSnapshot(disk')
                /\ disk'.agents[a].status = "failed"
                /\ disk'.agents[a].error = ThrownError]_vars

\* a call has rethrown while the external executor of another agent of the
\* wave is still running
C25_Witness ==
    /\ pc = "barrier"
    /\ \E a, b \in AgentNames :
          /\ exec[a] = "rejected"
          /\ exec[b] = "external"
          /\ disk.agents[a].error = ThrownError

\* C27: when the dependency graph has a cycle the script gets no further
\* than the gate, where detectCycles reports it and the process exits: no
\* tracker is constructed or initialised, pipeline.json is never written, and
\* no agent is launched.
C27_CycleGate ==
    (deps # Null /\ HasCycle(deps)) =>
        /\ pc \in {"built", "checked", "exited"}
        /\ pc # "built" => (cycles # Null /\ cycles # Unset)
        /\ state = Null
        /\ disk = Null
        /\ history = {}
        /\ \A a \in AgentNames : exec[a] = "idle"

\* the script has exited at the gate for a pipeline definition in which an
\* agent reports to itself
C27_Witness ==
    /\ pc = "exited"
    /\ def.mode = "pipeline"
    /\ HasCycle(deps)
    /\ \E n \in AgentNames : n \in def.reportsTo[n] /\ cycles.names = <<n>>

\* C28: buildExecutionWaves ends on every graph, after at most one pass per
\* key; it throws exactly when some agent can never become ready (it lies
\* on a cycle or depends on one or on a name that is no key), never on a
\* graph without cycle whose dependencies are keys, and when it returns the
\* waves hold every key.
C28_WavesTerminate ==
    pc = "waved" =>
        /\ Len(waves.waves) <= Len(deps.keys)
        /\ waves.threw <=> (\E n \in Range(deps.keys) : Blocked(deps, n))
        /\ (ClosedGraph(deps) /\ ~HasCycle(deps)) => ~waves.threw
        /\ ~waves.threw => \A n \in Range(deps.keys) : Occurrences(waves.waves, n) = 1

\* the loop built a wave and then found no agent ready: the rest lies on a
\* cycle
C28_Witness ==
    /\ pc = "waved"
    /\ waves.threw
    /\ Len(waves.waves) = 1
    /\ HasCycle(deps)
    /\ ClosedGraph(deps)

\* the agents of the waves before wave k
EarlierWaves(ws, k) == UNION {Range(ws[j]) : j \in 1..(k - 1)}

\* C29: every wave lists its agents in ascending order, and wave k holds
\* exactly the agents, not in an earlier wave, whose dependencies are all in
\* earlier waves: the wave list is fixed by the keys and edges of the graph,
\* whatever the order in which the keys were inserted.
C29_DeterministicWaves ==
    pc = "waved" =>
        \A k \in 1..Len(waves.waves) :
            /\ \A i \in 1..(Len(waves.waves[k]) - 1) :
                  StrLess(waves.waves[k][i], waves.waves[k][i + 1])
            /\ Range(waves.waves[k]) =
                  {n \in Range(deps.keys) \ EarlierWaves(waves.waves, k) :
                      deps.get[n] \subseteq EarlierWaves(waves.waves, k)}

\* a wave of two agents that were inserted into the graph in descending
\* order
C29_Witness ==
    /\ pc = "waved"
    /\ ~waves.threw
    /\ \E k \in 1..Len(waves.waves) :
          /\ Len(waves.waves[k]) = 2
          /\ \E i, j \in 1..Len(deps.keys) :
                /\ i < j
                /\ deps.keys[i] = waves.waves[k][2]
                /\ deps.keys[j] = waves.waves[k][1]

CurrentWave == waves.waves[ctl.waveIdx + 1]

\* the entries of the error list for agent n in the given iteration
ErrorsOf(errors, n, iteration) ==
    {i \in 1..Len(errors) : errors[i][1] = n /\ errors[i][2] = iteration}

\* C31: the controller leaves the barrier of a wave only when every agent of
\* the wave has settled, and then the error list holds, for each agent of
\* the wave that failed, one entry of its own with its own error text; the
\* result's errors are those of the agents that failed.
C31_EveryFailureOfWaveReported ==
    /\ [][(pc = "barrier" /\ pc' # "barrier") =>
            \A n \in Range(CurrentWave) :
                /\ exec[n] \in Settled
                /\ exec[n] # "resolvedOk" =>
                      /\ Cardinality(ErrorsOf(ctl'.errors, n, ctl.iteration)) = 1
                      /\ \A i \in ErrorsOf(ctl'.errors, n, ctl.iteration) :
                            ctl'.errors[i] = ErrorEntry(n, ctl.iteration, exec[n])]_vars
    /\ [](pc = "finished" =>
            Len(result.errors) = Cardinality({n \in AgentNames : exec[n] \in {"resolvedFail", "rejected"}}))

\* a wave of three agents in which one agent threw, one returned a non-zero
\* exit code and one completed: the result has two errors
C31_Witness ==
    /\ pc = "finished"
    /\ Len(CurrentWave) = 3
    /\ \E a, b, c \in Range(CurrentWave) :
          /\ exec[a] = "rejected"
          /\ exec[b] = "resolvedFail"
          /\ exec[c] = "resolvedOk"
    /\ Len(result.errors) = 2
    /\ result.errors[1][1] # result.errors[2][1]

\* the agents whose executeSwarmAgent call begins at the step
LaunchedNow == {n \in AgentNames : exec'[n] = "starting" /\ exec[n] # "starting"}

\* C32: a step that launches agents launches exactly the agents of the wave
\* the loop is at, none of which was launched in the iteration before, after
\* every agent of the earlier waves has completed in the iteration and before
\* any agent of a later wave; the wave list stays as it was computed; an
\* iteration is counted only when every agent was launched and has completed
\* in it; and a run that ends completed has launched every agent in each of
\* the iterations 1..targetCount and in no other.
C32_LaunchedOncePerIteration ==
    /\ [][(InRun /\ LaunchedNow # {}) =>
            /\ LaunchedNow = Range(CurrentWave)
            /\ \A n \in LaunchedNow :
                  /\ exec[n] = "idle"
                  /\ <<"launch", ctl.iteration, n>> \notin history
                  /\ <<"launch", ctl.iteration, n>> \in history'
            /\ \A n \in AgentNames \ LaunchedNow :
                  IF n \in EarlierWaves(waves.waves, ctl.waveIdx + 1)
                  THEN exec[n] = "resolvedOk" /\ <<"launch", ctl.iteration, n>> \in history
                  ELSE exec[n] = "idle" /\ <<"launch", ctl.iteration, n>> \notin history']_vars
    /\ [][InRun => (waves' = waves /\ deps' = deps)]_vars
    /\ [][(InRun /\ ctl'.iterations # ctl.iterations) =>
            /\ ctl'.iterations = ctl.iterations + 1
            /\ \A n \in AgentNames :
                  exec[n] = "resolvedOk" /\ <<"launch", ctl.iteration, n>> \in history]_vars
    /\ [](InRun => \A h \in Events("launch") : h[2] \in 1..ctl.iteration)
    /\ []((pc = "finished" /\ result.status = "completed") =>
            Events("launch") = {<<"launch", i, n>> : i \in 1..def.targetCount, n \in AgentNames})

\* a run of two iterations over two waves has ended completed
C32_Witness ==
    /\ pc = "finished"
    /\ result.status = "completed"
    /\ def.targetCount = 2
    /\ Len(waves.waves) = 2
    /\ Cardinality(Events("launch")) = 2 * NumAgents

\* the iterations in which every agent, hence every wave, succeeded
SucceededIterations ==
    {i \in 1..def.targetCount : \A n \in AgentNames : <<"ok", i, n>> \in history}

\* C33: the iteration count of the result is the number of iterations in
\* which every wave succeeded; it lies in 0..targetCount, is targetCount
\* when the status is completed and less when the status is failed.
C33_IterationCount ==
    pc = "finished" =>
        /\ result.iterations = Cardinality(SucceededIterations)
        /\ result.iterations \in 0..def.targetCount
        /\ result.status = "completed" => result.iterations = def.targetCount
        /\ result.status = "failed" => result.iterations < def.targetCount

\* the second of two iterations failed in its second wave: one iteration is
\* counted
C33_Witness ==
    /\ pc = "finished"
    /\ result.status = "failed"
    /\ def.targetCount = 2
    /\ ctl.iteration = 2
    /\ ctl.waveIdx = 1
    /\ result.iterations = 1

(***************************************************************************)
(* Frames of the tracker's and of the graph functions' calls.              *)
(***************************************************************************)
\* object b has the properties of object a and those named in update, with
\* the values of update for these and the values of a for the others
AssignedOnly(a, b, update) ==
    /\ DOMAIN b = DOMAIN a \cup DOMAIN update
    /\ \A f \in DOMAIN update : b[f] = update[f]
    /\ \A f \in DOMAIN a \ DOMAIN update : b[f] = a[f]

\* C34: a call of updateAgent(name, update) for a known agent changes, of
\* the tracker's state, only the properties of that agent that update
\* names: every other property of the agent, every other agent and every
\* top-level property stay as they were; a call of updatePipeline(update)
\* changes only the top-level properties that update names.
C34_UpdateFrame ==
    [][/\ \A name \in AgentNames, update \in AgentUpdates(clock) :
            CallUpdateAgent(name, update) =>
                /\ DOMAIN state' = DOMAIN state
                /\ \A f \in DOMAIN state \ {"agents"} : state'[f] = state[f]
                /\ DOMAIN state'.agents = DOMAIN state.agents
                /\ \A m \in DOMAIN state.agents \ {name} : state'.agents[m] = state.agents[m]
                /\ AssignedOnly(state.agents[name], state'.agents[name], update)
       /\ \A update \in PipelineUpdates(clock) :
            CallUpdatePipeline(update) =>
                /\ state'.agents = state.agents
                /\ AssignedOnly(state, state', update)]_vars

\* one agent was taken to running and the pipeline to failed: the other
\* agents are as init seeded them and the target count and mode as init set
\* them
C34_Witness ==
    /\ pc = "inited"
    /\ ncalls = 2
    /\ calls = {}
    /\ state.status = "failed"
    /\ state.mode = "parallel"
    /\ state.targetCount = MaxIter
    /\ \E n \in AgentNames :
          /\ state.agents[n] = [name |-> n, status |-> "running", iteration |-> 1,
                                wave |-> 0, startedAt |-> clock]
          /\ \A m \in AgentNames \ {n} :
                state.agents[m] = [name |-> m, status |-> "pending", iteration |-> 0, wave |-> 0]

C36_GraphClosure ==
    Built =>
        /\ deps.keys = def.agentOrder
        /\ Range(deps.keys) = Known
        /\ DOMAIN deps.get = Range(deps.keys)
        /\ ClosedGraph(deps)
        /\ UnknownName \notin UNION {deps.get[n] : n \in Range(deps.keys)}

\* a pipeline definition whose only entries name an unknown agent, one in
\* waits_for and one in reports_to: the graph is the chain
C36_Witness ==
    /\ Built
    /\ def.mode = "pipeline"
    /\ \E n, m \in Known :
          /\ UnknownName \in def.waitsFor[n]
          /\ UnknownName \in def.reportsTo[m]
    /\ \E n \in Known : deps.get[n] # {}

\* C37: for a graph whose dependencies are all keys, detectCycles returns
\* null exactly when buildExecutionWaves returns a wave list, and a list of
\* names exactly when buildExecutionWaves throws its Deadlock error.
C37_DetectorAgreesWithScheduler ==
    (pc = "waved" /\ ClosedGraph(deps)) => (cycles = Null <=> ~waves.threw)

\* a graph in which one agent is free and the two others wait for each
\* other: detectCycles names the two, buildExecutionWaves throws after the
\* first wave
C37_Witness ==
    /\ pc = "waved"
    /\ ClosedGraph(deps)
    /\ cycles # Null
    /\ Len(cycles.names) = 2
    /\ waves.threw
    /\ Len(waves.waves) = 1
    /\ Range(waves.waves[1]) \cap Range(cycles.names) = {}

\* the index, from 0, of the wave that holds agent n
WaveIndex(ws, n) == (CHOOSE k \in WavesOf(ws, n) : TRUE) - 1

\* the largest number of a non-empty set of numbers
SetMax(S) == CHOOSE x \in S : \A y \in S : y <= x

\* C38: in the waves buildExecutionWaves returns an agent without
\* dependencies is in wave 0 and every other agent in the wave after the
\* last wave of its dependencies; a graph without edges gives one wave with
\* all its agents.
C38_EarliestWave ==
    (pc = "waved" /\ ~waves.threw) =>
        /\ \A n \in Range(deps.keys) :
              WaveIndex(waves.waves, n) =
                  (IF deps.get[n] = {} THEN 0
                   ELSE 1 + SetMax({WaveIndex(waves.waves, d) : d \in deps.get[n]}))
        /\ (\A n \in Range(deps.keys) : deps.get[n] = {}) =>
              /\ Len(waves.waves) = 1
              /\ Range(waves.waves[1]) = Range(deps.keys)

\* two agents wait for the same agent, and for nothing else: both are in
\* wave 1
C38_Witness ==
    /\ pc = "waved"
    /\ ~waves.threw
    /\ Len(waves.waves) = 2
    /\ Len(waves.waves[2]) = 2
    /\ \E n \in Range(waves.waves[2]) : deps.get[n] = Range(waves.waves[1])

(***************************************************************************)
(* Properties of the executor's updates.                                   *)
(***************************************************************************)
\* C39: once an agent's executeSwarmAgent call has settled, by returning or
\* by rethrowing, the tracker holds the agent as completed or failed; when
\* every call of a wave has settled no agent of the wave is running, and
\* when the loop has ended no agent is.
C39_NoAgentLeftRunning ==
    InRun =>
        /\ \A a \in AgentNames :
              exec[a] \in Settled => state.agents[a].status \in {"completed", "failed"}
        /\ (\A n \in Range(CurrentWave) : exec[n] \in Settled) =>
              \A n \in Range(CurrentWave) : state.agents[n].status \notin {"running", "pending"}
        /\ pc \in {"finalise", "finished"} =>
              \A a \in AgentNames : state.agents[a].status # "running"

\* every call of a wave of several agents has settled, one by rethrowing,
\* one by returning exit code zero, and the controller has not gone on yet
C39_Witness ==
    /\ pc = "barrier"
    /\ Len(CurrentWave) >= 2
    /\ \A n \in Range(CurrentWave) : exec[n] \in Settled
    /\ \E a, b \in Range(CurrentWave) :
          /\ exec[a] = "rejected" /\ state.agents[a].status = "failed"
          /\ exec[b] = "resolvedOk" /\ state.agents[b].status = "completed"

\* C40: the update to running leaves the agent's recorded error and
\* completion time as they were; a settle update replaces the error by that
\* of the new result, so that after a call that settles with exit code zero
\* and no error the agent has no error, in the state and in the document
\* the call writes, whatever it had before.
C40_ErrorAcrossIterations ==
    [][\A name \in AgentNames :
          /\ CallUpdateAgent(name, RunningUpdate(1, clock)) =>
                /\ SameObject(state'.agents[name], state.agents[name], {"error", "completedAt"})
                /\ \A c \in calls' \ calls :
                      SameObject(c.doc.agents[name], state.agents[name], {"error", "completedAt"})
          /\ CallUpdateAgent(name, SettleUpdate("ok", clock)) =>
                /\ ~Present(state'.agents[name], "error")
                /\ \A c \in calls' \ calls : "error" \notin DOMAIN c.doc.agents[name]
          /\ CallUpdateAgent(name, SettleUpdate("fail", clock)) =>
                state'.agents[name].error = ExitError]_vars

\* an agent failed, was taken to running, which kept its error (the file
\* still shows it), and has now settled with exit code zero: no error
C40_Witness ==
    /\ pc = "inited"
    /\ ncalls = 3
    /\ CompleteSnapshot(disk)
    /\ \E n \in AgentNames :
          /\ disk.agents[n].status = "running"
          /\ Present(disk.agents[n], "error") /\ disk.agents[n].error = ExitError
          /\ "completedAt" \in DOMAIN disk.agents[n]
          /\ state.agents[n].status = "completed"
          /\ ~Present(state.agents[n], "error")

=============================================================================
